---- MODULE Spec2Model ----
(***************************************************************************)
(* Model of notebooks/01_etl_encuesta_transform.py: the survey ETL that    *)
(* validates, filters and classifies congress-visitor responses, builds    *)
(* derived variables, aggregates them by (visitor_type_1, visitor_type_2)  *)
(* and completes the 3x3 visitor matrix.                                   *)
(*                                                                         *)
(* Representation of pandas values:                                        *)
(*   - a text cell is a string; a missing text cell is NaNStr;             *)
(*   - a numeric cell of the survey table is <<>> (NaN) or <<v>>;          *)
(*   - a free-form cell (noches_valencia, dist_km, shopping quantities)    *)
(*     is a record [k, v]: k = "num" a number v, "numstr" a text that      *)
(*     parses to v, "half" the number v/2 (v odd), "txt" a text that does  *)
(*     not parse, "nan" missing; to_numeric gives <<v>>, or <<v, 2>> for a *)
(*     half;                                                               *)
(*   - a numeric cell of the summary table is <<>> (NaN) or the exact      *)
(*     fraction <<n, d>> in lowest terms, d > 0.                           *)
(* Labels are written without accents (Espana, Valencia/Valencia, Ultima   *)
(* pagina, Pension o hostal).                                              *)
(***************************************************************************)
EXTENDS Integers, Sequences, FiniteSets, TLC

VARIABLES pc, df, columns, df_filtered, summary_df, error, executed, warned

vars == <<pc, df, columns, df_filtered, summary_df, error, executed, warned>>

\* Largest number of rows of an input survey table.
MaxRecords == 2

NaN == <<>>
NaNStr == "<NaN>"

CONFIG ==
    [complete_survey_last_page |-> 7,
     excluded_accommodation |-> "Ninguno, me desplace desde mi lugar de residencia",
     visitor_type1_categories |-> <<"International", "National", "Local">>,
     visitor_type2_categories |-> <<"Eco-conscious", "Standard", "Young professional/student">>,
     spain_code |-> "Espana",
     valencia_code |-> "Valencia/Valencia",
     foreign_code |-> "Extranjero"]

\* Ceiling of "Ultima pagina" accepted by validate_data.
MaxLastPage == 10

\* Fewer retained rows than this triggers the data-quality warning.
MinObservations == 10

required_cols ==
    <<"Ultima pagina", "alojamiento", "residencia", "pais", "provincia", "noches_valencia">>

raw_food_cols ==
    {"carne_roja_restaurante", "carne_roja_fastfood", "carne_roja_domicilio", "carne_roja_casera",
     "avepescado_restaurante", "avepescado_fastfood", "avepescado_domicilio", "avepescado_casera",
     "marisco_restaurante", "marisco_domicilio", "marisco_casera"}

shopping_cols ==
    <<"compras_textiles_cantidad", "compras_artesania_cantidad",
      "compras_alimentacion_cantidad", "compras_souvenirs_cantidad">>

Range(s) == {s[i] : i \in 1..Len(s)}

AllColumns == Range(required_cols) \cup {"dist_km"} \cup raw_food_cols \cup Range(shopping_cols)

----------------------------------------------------------------------------
(* Arithmetic helpers.                                                      *)

RECURSIVE GCD(_, _)
GCD(a, b) == IF b = 0 THEN a ELSE GCD(b, a % b)

\* The fraction n/d (n >= 0, d > 0) in lowest terms.
Frac(n, d) == LET g == GCD(n, d) IN <<n \div g, d \div g>>

\* n/d rounded to the nearest integer, ties to the even one (numpy's round).
RoundHalfEven(n, d) ==
    LET q == n \div d
        r == n % d
    IN  IF 2 * r < d THEN q
        ELSE IF 2 * r > d THEN q + 1
        ELSE IF q % 2 = 0 THEN q ELSE q + 1

\* Series.round(2) on a summary cell: NaN stays NaN.
Round2(x) == IF x = NaN THEN NaN ELSE Frac(RoundHalfEven(x[1] * 100, x[2]), 100)

\* Series.fillna(0) on a numeric cell of the survey table.
fillna0(x) == IF x = NaN THEN 0 ELSE x[1]

\* pd.to_numeric(cell, errors='coerce') on a free-form cell.
to_numeric(c) ==
    IF c.k \in {"num", "numstr"} THEN <<c.v>>
    ELSE IF c.k = "half" THEN <<c.v, 2>>
    ELSE NaN

RECURSIVE SumSeq(_)
SumSeq(s) == IF s = <<>> THEN 0 ELSE Head(s) + SumSeq(Tail(s))

\* Values of a column as a sequence of cells.
Column(rows, col) == [i \in 1..Len(rows) |-> rows[i][col]]

\* Series.mean() of numeric cells: NaN cells are skipped, and the mean of no
\* value is NaN.
Mean(cells) ==
    LET present == SelectSeq(cells, LAMBDA c : c # NaN)
    IN  IF present = <<>> THEN NaN
        ELSE Frac(SumSeq([i \in 1..Len(present) |-> present[i][1]]), Len(present))

----------------------------------------------------------------------------
(* Input tables.                                                            *)

NumV(v) == [k |-> "num", v |-> v]
TxtV == [k |-> "txt", v |-> 0]
NanV == [k |-> "nan", v |-> 0]
NumStrV(v) == [k |-> "numstr", v |-> v]
HalfV(v) == [k |-> "half", v |-> v]

\* One complete response of a national visitor who walked to the congress.
BaseRow ==
    [ultima_pagina |-> <<7>>, alojamiento |-> "Hotel 3 estrellas",
     residencia |-> "Espana", pais |-> NaNStr, provincia |-> "Madrid",
     noches_valencia |-> NumV(2), dist_km |-> NumV(3),
     uso_bus_congreso |-> <<0>>, uso_metro_congreso |-> NaN,
     uso_taxi_congreso |-> <<0>>, uso_coche_congreso |-> NaN,
     uso_bici_congreso |-> <<0>>, uso_pie_congreso |-> <<2>>,
     uso_bus_ocio |-> <<1>>, uso_metro_ocio |-> NaN,
     uso_taxi_ocio |-> <<0>>, uso_coche_ocio |-> <<0>>,
     uso_bici_ocio |-> NaN, uso_pie_ocio |-> <<3>>,
     carne_roja_restaurante |-> <<1>>, carne_roja_fastfood |-> <<0>>,
     carne_roja_domicilio |-> NaN, carne_roja_casera |-> <<0>>,
     avepescado_restaurante |-> <<2>>, avepescado_fastfood |-> NaN,
     avepescado_domicilio |-> <<0>>, avepescado_casera |-> <<1>>,
     marisco_restaurante |-> NaN, marisco_domicilio |-> <<0>>, marisco_casera |-> <<0>>,
     compras_textiles_cantidad |-> NumV(1), compras_artesania_cantidad |-> NanV,
     compras_alimentacion_cantidad |-> TxtV, compras_souvenirs_cantidad |-> NumV(0)]

\* (residencia, pais, provincia) of the four outcomes of classify_visitor_type1.
GeoProfiles ==
    {<<"Extranjero", "Francia", NaNStr>>,
     <<"Espana", "Espana", "Valencia/Valencia">>,
     <<"Espana", NaNStr, "Madrid">>,
     <<NaNStr, NaNStr, NaNStr>>}

\* (bus, metro, taxi, coche, bici, pie) at the congress: one per outcome of
\* classify_visitor_type2.
TransportProfiles ==
    {<<<<0>>, NaN, <<0>>, NaN, <<1>>, <<2>>>>,
     <<<<1>>, NaN, <<2>>, <<3>>, NaN, <<0>>>>,
     <<<<2>>, <<2>>, NaN, <<1>>, <<0>>, <<0>>>>,
     <<<<0>>, NaN, <<0>>, NaN, NaN, <<0>>>>}

NightsValues == {NumV(1), TxtV}

WithGeo(r, g) == [r EXCEPT !.residencia = g[1], !.pais = g[2], !.provincia = g[3]]

WithTransport(r, t) ==
    [r EXCEPT !.uso_bus_congreso = t[1], !.uso_metro_congreso = t[2],
              !.uso_taxi_congreso = t[3], !.uso_coche_congreso = t[4],
              !.uso_bici_congreso = t[5], !.uso_pie_congreso = t[6]]

\* Rows the filter retains.
RetainedRows ==
    {[WithTransport(WithGeo(BaseRow, g), t) EXCEPT !.noches_valencia = n] :
        g \in GeoProfiles, t \in TransportProfiles, n \in NightsValues}

\* Rows the filter drops: an incomplete questionnaire and a non-overnight local.
DroppedRows ==
    {[BaseRow EXCEPT !.ultima_pagina = <<6>>],
     [BaseRow EXCEPT !.alojamiento = CONFIG.excluded_accommodation]}

\* A retained row without accommodation answer.
NoAnswerRows == {[BaseRow EXCEPT !.alojamiento = NaNStr, !.provincia = CONFIG.valencia_code]}

\* A table of the given row contents, with the default RangeIndex 0..n-1.
Table(rows) == [i \in 1..Len(rows) |-> [index |-> i - 1] @@ rows[i]]

Tables(rowset, n) == {Table(rows) : rows \in [1..n -> rowset]}

\* Single-row tables over every combination of the three geographic fields.
ResidenciaValues == {"Espana", "Extranjero", "Portugal", NaNStr}
PaisValues == {"Espana", "Francia", NaNStr}
ProvinciaValues == {"Valencia/Valencia", "Madrid", NaNStr}

GeoRows ==
    {WithGeo(BaseRow, <<r, p, v>>) :
        r \in ResidenciaValues, p \in PaisValues, v \in ProvinciaValues}

\* Single-row tables over every combination of the six congress transport counts.
UseValues == {NaN, <<0>>, <<2>>, <<5>>}

TransportRows ==
    {WithTransport(BaseRow, <<b, m, t, c, bi, pi>>) :
        b \in UseValues, m \in UseValues, t \in UseValues,
        c \in UseValues, bi \in UseValues, pi \in UseValues}

\* Rows for the validation cases: a page beyond the ceiling, a missing page.
ValidationRows ==
    {BaseRow,
     [BaseRow EXCEPT !.ultima_pagina = <<11>>],
     [BaseRow EXCEPT !.ultima_pagina = NaN]}

\* Column sets of the input: complete, without optional columns, and without
\* one, two or three of the required columns.
ColumnSets ==
    {AllColumns,
     AllColumns \ {"dist_km"},
     AllColumns \ Range(shopping_cols),
     AllColumns \ {"marisco_restaurante", "carne_roja_fastfood"},
     AllColumns \ {"marisco_restaurante", "marisco_domicilio", "marisco_casera"},
     AllColumns \ {"provincia"},
     AllColumns \ {"pais", "noches_valencia"},
     AllColumns \ {"Ultima pagina", "alojamiento", "residencia"}}

NoError == [kind |-> "none", missing_cols |-> <<>>, observed |-> 0]

InitCommon ==
    /\ pc = "validate"
    /\ df_filtered = <<>>
    /\ summary_df = [columns |-> <<>>, rows |-> <<>>]
    /\ error = NoError
    /\ executed = <<>>
    /\ warned = FALSE

InitPipeline ==
    /\ columns = AllColumns
    /\ \E n \in 0..MaxRecords : df \in Tables(RetainedRows \cup DroppedRows \cup NoAnswerRows, n)

InitValidation ==
    /\ columns \in ColumnSets
    /\ \E n \in 1..MaxRecords : df \in Tables(ValidationRows, n)

InitGeo ==
    /\ columns = AllColumns
    /\ df \in Tables(GeoRows, 1)

InitTransport ==
    /\ columns = AllColumns
    /\ df \in Tables(TransportRows, 1)

\* Single-row tables over raw shopping quantities of every kind: missing,
\* text, numeric text, zero, positive, negative and fractional numbers.
ShoppingValues ==
    {NanV, TxtV, NumStrV(3), NumV(0), NumV(2), NumV(-1), HalfV(3), HalfV(-1), HalfV(-3)}

ShoppingRows ==
    {[BaseRow EXCEPT !.compras_textiles_cantidad = a, !.compras_souvenirs_cantidad = b] :
        a \in ShoppingValues, b \in ShoppingValues}

\* Tables of one visitor group spread over accommodation categories, with a
\* second group and a respondent whose nights do not parse.
AccommodationValues ==
    {"Alojamiento local sin coste", "Apartamento de alquiler (AirBnb)",
     "Hotel 2 estrellas", "Hotel 4 estrellas"}

AccommodationRows ==
    {[BaseRow EXCEPT !.alojamiento = a, !.noches_valencia = n] :
        a \in AccommodationValues, n \in {NumV(1), NumV(4)}}
    \cup {[BaseRow EXCEPT !.alojamiento = "Apartamento de alquiler (AirBnb)",
                          !.noches_valencia = TxtV],
          [BaseRow EXCEPT !.alojamiento = "Hotel 4 estrellas",
                          !.uso_taxi_congreso = <<5>>]}

InitAccommodation ==
    /\ columns = AllColumns
    /\ \E n \in 1..(MaxRecords + 1) : df \in Tables(AccommodationRows, n)

InitShopping ==
    /\ columns = AllColumns
    /\ df \in Tables(ShoppingRows, 1)

Init ==
    /\ InitCommon
    /\ \/ InitPipeline
       \/ InitValidation
       \/ InitGeo
       \/ InitTransport
       \/ InitShopping
       \/ InitAccommodation

----------------------------------------------------------------------------
(* 3. Utility functions.                                                    *)

RECURSIVE MaxSeq(_)
MaxSeq(s) ==
    IF Len(s) = 1 THEN Head(s)
    ELSE LET m == MaxSeq(Tail(s)) IN IF Head(s) >= m THEN Head(s) ELSE m

\* Series.max(): NaN cells are skipped (called on a column with a value).
SeriesMax(cells) ==
    LET present == SelectSeq(cells, LAMBDA c : c # NaN)
    IN  MaxSeq([i \in 1..Len(present) |-> present[i][1]])

\* validate_data reporting only the first missing column.
validate_data_first_missing(table, cols) ==
    LET missing_cols == SelectSeq(required_cols, LAMBDA col : col \notin cols)
        pages == Column(table, "ultima_pagina")
    IN  IF missing_cols # <<>>
        THEN [kind |-> "missing_columns", missing_cols |-> <<Head(missing_cols)>>, observed |-> 0]
        ELSE IF \A i \in 1..Len(pages) : pages[i] = NaN
        THEN [kind |-> "no_data", missing_cols |-> <<>>, observed |-> 0]
        ELSE IF ~(SeriesMax(pages) <= MaxLastPage)
        THEN [kind |-> "unexpected_value", missing_cols |-> <<>>, observed |-> SeriesMax(pages)]
        ELSE NoError

\* validate_data: the error it raises on (table, columns), NoError if it returns.
validate_data(table, cols) ==
    LET missing_cols == SelectSeq(required_cols, LAMBDA col : col \notin cols)
        pages == Column(table, "ultima_pagina")
    IN  IF missing_cols # <<>>
        THEN [kind |-> "missing_columns", missing_cols |-> missing_cols, observed |-> 0]
        ELSE IF \A i \in 1..Len(pages) : pages[i] = NaN
        THEN [kind |-> "no_data", missing_cols |-> <<>>, observed |-> 0]
        ELSE IF ~(SeriesMax(pages) <= MaxLastPage)
        THEN [kind |-> "unexpected_value", missing_cols |-> <<>>, observed |-> SeriesMax(pages)]
        ELSE NoError

\* The Local rule tried before the International rule.
classify_visitor_type1_local_first(row) ==
    IF row.residencia = CONFIG.spain_code /\ row.provincia = CONFIG.valencia_code
    THEN "Local"
    ELSE IF \/ row.residencia = CONFIG.foreign_code
            \/ (row.pais # NaNStr /\ row.pais # CONFIG.spain_code)
    THEN "International"
    ELSE IF row.residencia = CONFIG.spain_code
    THEN "National"
    ELSE NaNStr

classify_visitor_type1(row) ==
    IF \/ row.residencia = CONFIG.foreign_code
       \/ (row.pais # NaNStr /\ row.pais # CONFIG.spain_code)
    THEN "International"
    ELSE IF row.residencia = CONFIG.spain_code /\ row.provincia = CONFIG.valencia_code
    THEN "Local"
    ELSE IF row.residencia = CONFIG.spain_code
    THEN "National"
    ELSE NaNStr

Max3(a, b, c) == MaxSeq(<<a, b, c>>)

\* Public transport tried before active mobility in the tie-break.
classify_visitor_type2_public_first(row) ==
    LET public == row.public_transport_use_congreso[1]
        car == row.car_use_congreso[1]
        walk_bike == row.walk_bike_use_congreso[1]
        max_val == Max3(public, car, walk_bike)
    IN  IF public = 0 /\ car = 0 /\ walk_bike = 0
        THEN "No transport reported"
        ELSE IF public = max_val THEN "Young professional/student"
        ELSE IF walk_bike = max_val THEN "Eco-conscious"
        ELSE "Standard"

classify_visitor_type2(row) ==
    LET public == row.public_transport_use_congreso[1]
        car == row.car_use_congreso[1]
        walk_bike == row.walk_bike_use_congreso[1]
        max_val == Max3(public, car, walk_bike)
    IN  IF public = 0 /\ car = 0 /\ walk_bike = 0
        THEN "No transport reported"
        ELSE IF walk_bike = max_val THEN "Eco-conscious"
        ELSE IF public = max_val THEN "Young professional/student"
        ELSE "Standard"

\* The bus count read from the leisure column in every context.
create_transport_variables_leisure_bus(table, context) ==
    [i \in 1..Len(table) |->
        LET row == table[i]
            public == fillna0(row.uso_bus_ocio) + fillna0(row["uso_metro_" \o context])
            car == fillna0(row["uso_taxi_" \o context]) + fillna0(row["uso_coche_" \o context])
            walk_bike == fillna0(row["uso_bici_" \o context]) + fillna0(row["uso_pie_" \o context])
        IN  (("public_transport_use_" \o context) :> <<public>>
             @@ ("car_use_" \o context) :> <<car>>
             @@ ("walk_bike_use_" \o context) :> <<walk_bike>>)
            @@ row]

\* create_transport_variables: the three buckets of one context, added to
\* (or overwritten in) every row.
create_transport_variables(table, context) ==
    [i \in 1..Len(table) |->
        LET row == table[i]
            public == fillna0(row["uso_bus_" \o context]) + fillna0(row["uso_metro_" \o context])
            car == fillna0(row["uso_taxi_" \o context]) + fillna0(row["uso_coche_" \o context])
            walk_bike == fillna0(row["uso_bici_" \o context]) + fillna0(row["uso_pie_" \o context])
        IN  (("public_transport_use_" \o context) :> <<public>>
             @@ ("car_use_" \o context) :> <<car>>
             @@ ("walk_bike_use_" \o context) :> <<walk_bike>>)
            @@ row]

----------------------------------------------------------------------------
(* 4. Load and validate.                                                    *)

ValidateData ==
    /\ pc = "validate"
    /\ error' = validate_data(df, columns)
    /\ pc' = IF error'.kind = "none" THEN "filter" ELSE "failed"
    /\ executed' = Append(executed, "validate")
    /\ UNCHANGED <<df, columns, df_filtered, summary_df, warned>>

(* 5. Filtering and cleaning.                                               *)

\* df[df["Ultima pagina"] == complete_survey_last_page]
FilterComplete(table) ==
    SelectSeq(table, LAMBDA row : row.ultima_pagina = <<CONFIG.complete_survey_last_page>>)

\* df[df["alojamiento"] != excluded_accommodation]
FilterAccommodation(table) ==
    SelectSeq(table, LAMBDA row : row.alojamiento # CONFIG.excluded_accommodation)

\* The filter without its accommodation step.
FilterRows_complete_only(table) == FilterComplete(table)

FilterRows(table) == FilterAccommodation(FilterComplete(table))

Filter ==
    /\ pc = "filter"
    /\ df_filtered' = FilterRows(df)
    /\ warned' = (Len(df_filtered') < MinObservations)
    /\ pc' = "classify1"
    /\ executed' = Append(executed, "filter")
    /\ UNCHANGED <<df, columns, summary_df, error>>

(* 6. Visitor classification.                                               *)

ClassifyVisitorType1 ==
    /\ pc = "classify1"
    /\ df_filtered' = [i \in 1..Len(df_filtered) |->
                          [visitor_type_1 |-> classify_visitor_type1(df_filtered[i])]
                          @@ df_filtered[i]]
    /\ pc' = "transport"
    /\ executed' = Append(executed, "classify1")
    /\ UNCHANGED <<df, columns, summary_df, error, warned>>

CreateTransportVariables ==
    /\ pc = "transport"
    /\ df_filtered' = create_transport_variables(
                          create_transport_variables(df_filtered, "congreso"), "ocio")
    /\ pc' = "classify2"
    /\ executed' = Append(executed, "transport")
    /\ UNCHANGED <<df, columns, summary_df, error, warned>>

ClassifyVisitorType2 ==
    /\ pc = "classify2"
    /\ df_filtered' = [i \in 1..Len(df_filtered) |->
                          [visitor_type_2 |-> classify_visitor_type2(df_filtered[i])]
                          @@ df_filtered[i]]
    /\ pc' = "food"
    /\ executed' = Append(executed, "classify2")
    /\ UNCHANGED <<df, columns, summary_df, error, warned>>

(* 7. Aggregated variables.                                                *)

\* Source columns of each food total, by type of food and by place.
food_types ==
    [total_carne_roja |-> <<"carne_roja_restaurante", "carne_roja_fastfood",
                            "carne_roja_domicilio", "carne_roja_casera">>,
     total_avepescado |-> <<"avepescado_restaurante", "avepescado_fastfood",
                            "avepescado_domicilio", "avepescado_casera">>,
     total_marisco |-> <<"marisco_restaurante", "marisco_domicilio", "marisco_casera">>]

place_types ==
    [total_restaurante |-> <<"carne_roja_restaurante", "avepescado_restaurante",
                             "marisco_restaurante">>,
     total_fastfood |-> <<"carne_roja_fastfood", "avepescado_fastfood">>,
     total_domicilio |-> <<"carne_roja_domicilio", "avepescado_domicilio",
                           "marisco_domicilio">>,
     total_casera |-> <<"carne_roja_casera", "avepescado_casera", "marisco_casera">>]

\* df[existing_cols].sum(axis=1) for every total that has an existing source
\* column: NaN cells add 0; a total without source column is not created.
FoodTotals(row, groups, cols) ==
    LET existing_cols(t) == SelectSeq(groups[t], LAMBDA c : c \in cols)
        created == {t \in DOMAIN groups : existing_cols(t) # <<>>}
    IN  [t \in created |->
            <<SumSeq([j \in 1..Len(existing_cols(t)) |-> fillna0(row[existing_cols(t)[j]])])>>]

create_food_variables(table, cols) ==
    [i \in 1..Len(table) |->
        FoodTotals(table[i], place_types, cols)
        @@ FoodTotals(table[i], food_types, cols)
        @@ table[i]]

\* Series.astype(int) on a numeric cell: the fraction is cut off, toward zero.
astype_int(x) ==
    IF Len(x) = 1 THEN x[1]
    ELSE IF x[1] >= 0 THEN x[1] \div x[2]
    ELSE -((-x[1]) \div x[2])

\* pd.to_numeric(errors='coerce').fillna(0).astype(int) on a free-form cell.
\* Without fillna(0): a cell that does not parse stays missing.
ShoppingToInt_no_fillna(c) ==
    LET x == to_numeric(c)
    IN  IF x = NaN THEN NanV ELSE NumV(astype_int(x))

ShoppingToInt(c) ==
    LET x == to_numeric(c)
    IN  NumV(astype_int(IF x = NaN THEN <<0>> ELSE x))

convert_shopping_to_numeric(table, cols) ==
    LET existing_cols == SelectSeq(shopping_cols, LAMBDA col : col \in cols)
    IN  [i \in 1..Len(table) |->
            [col \in Range(existing_cols) |-> ShoppingToInt(table[i][col])] @@ table[i]]

CreateFoodVariables ==
    /\ pc = "food"
    /\ df_filtered' = create_food_variables(df_filtered, columns)
    /\ pc' = "shopping"
    /\ executed' = Append(executed, "food")
    /\ UNCHANGED <<df, columns, summary_df, error, warned>>

ConvertShoppingToNumeric ==
    /\ pc = "shopping"
    /\ df_filtered' = convert_shopping_to_numeric(df_filtered, columns)
    /\ pc' = "summary"
    /\ executed' = Append(executed, "shopping")
    /\ UNCHANGED <<df, columns, summary_df, error, warned>>

(* 8. Aggregated metrics.                                                  *)

\* groupby sorts the group keys: the labels in lexicographic order.
Type1Sorted == <<"International", "Local", "National">>
Type2Sorted ==
    <<"Eco-conscious", "No transport reported", "Standard", "Young professional/student">>

KeyOrder ==
    [k \in 1..(Len(Type1Sorted) * Len(Type2Sorted)) |->
        <<Type1Sorted[((k - 1) \div Len(Type2Sorted)) + 1],
          Type2Sorted[((k - 1) % Len(Type2Sorted)) + 1]>>]

\* Grouping on visitor_type_1 alone.
Group_by_type1(table, key) ==
    SelectSeq(table, LAMBDA row : row.visitor_type_1 = key[1])

\* The rows of one (visitor_type_1, visitor_type_2) group.
Group(table, key) ==
    SelectSeq(table, LAMBDA row : row.visitor_type_1 = key[1] /\ row.visitor_type_2 = key[2])

\* Keys of df.groupby(["visitor_type_1", "visitor_type_2"]): the observed
\* pairs, sorted; a row whose visitor_type_1 is NaN belongs to no group.
GroupKeys(table) == SelectSeq(KeyOrder, LAMBDA key : Group(table, key) # <<>>)

\* The two numeric columns calculate_summary_metrics adds to its argument.
WithNumericColumns(table, cols) ==
    [i \in 1..Len(table) |->
        [noches_valencia_num |-> to_numeric(table[i].noches_valencia),
         dist_km_num |-> IF "dist_km" \in cols THEN to_numeric(table[i].dist_km) ELSE NaN]
        @@ table[i]]

\* Columns the aggregation reads that create_food_variables may not have created.
MissingAggColumns(cols) ==
    {t \in (DOMAIN food_types) \cup (DOMAIN place_types) :
        LET groups == IF t \in DOMAIN food_types THEN food_types ELSE place_types
        IN  \A j \in 1..Len(groups[t]) : groups[t][j] \notin cols}

\* Columns of the .agg(...).reset_index() table, in order.
agg_columns ==
    <<"visitor_type_1", "visitor_type_2", "count_visitors", "avg_nights",
      "avg_public_transport_congress", "avg_car_congress", "avg_walk_bike_congress",
      "avg_public_transport_leisure", "avg_car_leisure", "avg_walk_bike_leisure",
      "avg_red_meat", "avg_poultry_fish", "avg_seafood", "avg_restaurant",
      "avg_fastfood", "avg_delivery", "avg_homemade", "dist_km_congress">>

\* One row of the .agg(...) of a group.
AggRow(table, key) ==
    LET g == Group(table, key)
    IN  [visitor_type_1 |-> key[1],
         visitor_type_2 |-> key[2],
         count_visitors |-> Frac(Len(g), 1),
         avg_nights |-> Mean(Column(g, "noches_valencia_num")),
         avg_public_transport_congress |-> Mean(Column(g, "public_transport_use_congreso")),
         avg_car_congress |-> Mean(Column(g, "car_use_congreso")),
         avg_walk_bike_congress |-> Mean(Column(g, "walk_bike_use_congreso")),
         avg_public_transport_leisure |-> Mean(Column(g, "public_transport_use_ocio")),
         avg_car_leisure |-> Mean(Column(g, "car_use_ocio")),
         avg_walk_bike_leisure |-> Mean(Column(g, "walk_bike_use_ocio")),
         avg_red_meat |-> Mean(Column(g, "total_carne_roja")),
         avg_poultry_fish |-> Mean(Column(g, "total_avepescado")),
         avg_seafood |-> Mean(Column(g, "total_marisco")),
         avg_restaurant |-> Mean(Column(g, "total_restaurante")),
         avg_fastfood |-> Mean(Column(g, "total_fastfood")),
         avg_delivery |-> Mean(Column(g, "total_domicilio")),
         avg_homemade |-> Mean(Column(g, "total_casera")),
         dist_km_congress |-> Mean(Column(g, "dist_km_num"))]

\* df.shape[0]
total_visitors(table) == Len(table)

\* df["visitor_type_1"].value_counts(): NaN is not counted.
type1_counts(table, t1) == Len(SelectSeq(table, LAMBDA row : row.visitor_type_1 = t1))

\* The share left as a fraction, not multiplied by 100.
pct_visitor_type_1_fraction(table, t1) ==
    Round2(Frac(type1_counts(table, t1), total_visitors(table)))

pct_visitor_type_1(table, t1) ==
    Round2(Frac(type1_counts(table, t1) * 100, total_visitors(table)))

\* x / x.sum() * 100 within the rows of the summary that share visitor_type_1.
pct_visitor_type_2(rows, i) ==
    LET same == SelectSeq(rows, LAMBDA r : r.visitor_type_1 = rows[i].visitor_type_1)
        x_sum == SumSeq([j \in 1..Len(same) |-> same[j].count_visitors[1]])
    IN  Round2(Frac(rows[i].count_visitors[1] * 100, x_sum))

\* The summary calculate_summary_metrics returns for a table that already
\* has the two numeric columns.
calculate_summary_metrics(table) ==
    LET keys == GroupKeys(table)
        rows == [i \in 1..Len(keys) |-> AggRow(table, keys[i])]
    IN  [columns |-> agg_columns \o <<"pct_visitor_type_1", "pct_visitor_type_2">>,
         rows |-> [i \in 1..Len(rows) |->
                     [pct_visitor_type_1 |-> pct_visitor_type_1(table, rows[i].visitor_type_1),
                      pct_visitor_type_2 |-> pct_visitor_type_2(rows, i)]
                     @@ rows[i]]]

CalculateSummaryMetrics ==
    /\ pc = "summary"
    /\ df_filtered' = WithNumericColumns(df_filtered, columns)
    /\ executed' = Append(executed, "summary")
    /\ IF MissingAggColumns(columns) # {}
       THEN /\ error' = [kind |-> "KeyError", missing_cols |-> <<>>, observed |-> 0]
            /\ pc' = "failed"
            /\ UNCHANGED summary_df
       ELSE /\ summary_df' = calculate_summary_metrics(df_filtered')
            /\ pc' = "accommodation"
            /\ UNCHANGED error
    /\ UNCHANGED <<df, columns, warned>>

(* 9. Accommodation metrics.                                               *)

\* Mean along a row with the NaN cells taken as 0.
MeanFrac_nan_as_zero(cells) ==
    LET filled == [k \in 1..Len(cells) |-> IF cells[k] = NaN THEN <<0, 1>> ELSE cells[k]]
        Add(a, b) == Frac(a[1] * b[2] + b[1] * a[2], a[2] * b[2])
        Sum[k \in 0..Len(filled)] == IF k = 0 THEN <<0, 1>> ELSE Add(Sum[k - 1], filled[k])
    IN  Frac(Sum[Len(filled)][1], Sum[Len(filled)][2] * Len(filled))

\* Mean of summary cells (fractions) along a row: NaN cells are skipped.
MeanFrac(cells) ==
    LET present == SelectSeq(cells, LAMBDA c : c # NaN)
        Add(a, b) == Frac(a[1] * b[2] + b[1] * a[2], a[2] * b[2])
        Sum[k \in 0..Len(present)] == IF k = 0 THEN <<0, 1>> ELSE Add(Sum[k - 1], present[k])
    IN  IF present = <<>> THEN NaN
        ELSE Frac(Sum[Len(present)][1], Sum[Len(present)][2] * Len(present))

\* Append the names that are not yet columns.
AddColumns(cols, names) == cols \o SelectSeq(names, LAMBDA c : c \notin Range(cols))

\* Accommodation labels in lexicographic order (the order of pivot columns).
AccommodationSorted ==
    <<"Alojamiento local sin coste", "Apartamento de alquiler (AirBnb)",
      "Hotel 2 estrellas", "Hotel 3 estrellas", "Hotel 4 estrellas", "Hotel 5 estrellas",
      "Ninguno, me desplace desde mi lugar de residencia", "Pension o hostal">>

\* Rows of one (visitor_type_1, visitor_type_2, alojamiento) group.
GroupAccommodation(table, key, cat) ==
    SelectSeq(Group(table, key), LAMBDA row : row.alojamiento = cat)

\* Categories of the pivot: the labels of the groups of
\* groupby(["visitor_type_1", "visitor_type_2", "alojamiento"]).
PivotCategories(table) ==
    SelectSeq(AccommodationSorted,
              LAMBDA cat : \E k \in 1..Len(KeyOrder) :
                               GroupAccommodation(table, KeyOrder[k], cat) # <<>>)

add_accommodation_metrics(table, summary) ==
    LET cats == PivotCategories(table)
        cell(key, cat) ==
            LET g == GroupAccommodation(table, key, cat)
            IN  IF g = <<>> THEN NaN ELSE Mean(Column(g, "noches_valencia_num"))
    IN  [columns |-> summary.columns \o [j \in 1..Len(cats) |-> "avg_nights_" \o cats[j]],
         rows |-> [i \in 1..Len(summary.rows) |->
                     LET r == summary.rows[i]
                     IN  [c \in {"avg_nights_" \o cats[j] : j \in 1..Len(cats)} |->
                             LET cat == CHOOSE x \in Range(cats) : c = "avg_nights_" \o x
                             IN  cell(<<r.visitor_type_1, r.visitor_type_2>>, cat)]
                         @@ r]]

AddAccommodationMetrics ==
    /\ pc = "accommodation"
    /\ summary_df' = add_accommodation_metrics(df_filtered, summary_df)
    /\ pc' = "group_accommodation"
    /\ executed' = Append(executed, "accommodation")
    /\ UNCHANGED <<df, columns, df_filtered, error, warned>>

\* Consolidated accommodation columns and their source columns.
groupings ==
    <<<<"avg_nights_Airbnb",
        <<"avg_nights_Alojamiento local sin coste",
          "avg_nights_Apartamento de alquiler (AirBnb)">>>>,
      <<"avg_nights_Hotel 3 estrellas", <<"avg_nights_Hotel 3 estrellas">>>>,
      <<"avg_nights_Hotel 4 estrellas", <<"avg_nights_Hotel 4 estrellas">>>>,
      <<"avg_nights_Hotel 5 estrellas", <<"avg_nights_Hotel 5 estrellas">>>>,
      <<"avg_nights_Pension o Hostal",
        <<"avg_nights_Hotel 2 estrellas", "avg_nights_Pension o hostal">>>>>>

group_accommodation_categories(summary) ==
    LET new_cols == [g \in 1..Len(groupings) |-> groupings[g][1]]
        existing_cols(g) ==
            SelectSeq(groupings[g][2], LAMBDA col : col \in Range(summary.columns))
        value(r, g) ==
            IF existing_cols(g) # <<>>
            THEN MeanFrac([j \in 1..Len(existing_cols(g)) |-> r[existing_cols(g)[j]]])
            ELSE NaN
    IN  [columns |-> AddColumns(summary.columns, new_cols),
         rows |-> [i \in 1..Len(summary.rows) |->
                     [c \in Range(new_cols) |->
                         value(summary.rows[i],
                               CHOOSE g \in 1..Len(groupings) : groupings[g][1] = c)]
                     @@ summary.rows[i]]]

GroupAccommodationCategories ==
    /\ pc = "group_accommodation"
    /\ summary_df' = group_accommodation_categories(summary_df)
    /\ pc' = "add_shopping"
    /\ executed' = Append(executed, "group_accommodation")
    /\ UNCHANGED <<df, columns, df_filtered, error, warned>>

(* 10. Shopping metrics.                                                    *)

add_shopping_metrics(table, cols, summary) ==
    LET existing_cols == SelectSeq(shopping_cols, LAMBDA col : col \in cols)
        avg_name(col) == "avg_" \o col
        avg(key, col) ==
            LET cells == Column(Group(table, key), col)
            IN  Mean([j \in 1..Len(cells) |-> <<cells[j].v>>])
    IN  IF existing_cols = <<>> THEN summary
        ELSE [columns |-> summary.columns
                          \o [j \in 1..Len(existing_cols) |-> avg_name(existing_cols[j])],
              rows |-> [i \in 1..Len(summary.rows) |->
                          LET r == summary.rows[i]
                          IN  [c \in {avg_name(col) : col \in Range(existing_cols)} |->
                                  avg(<<r.visitor_type_1, r.visitor_type_2>>,
                                      CHOOSE col \in Range(existing_cols) : c = avg_name(col))]
                              @@ r]]

AddShoppingMetrics ==
    /\ pc = "add_shopping"
    /\ summary_df' = add_shopping_metrics(df_filtered, columns, summary_df)
    /\ pc' = "complete"
    /\ executed' = Append(executed, "add_shopping")
    /\ UNCHANGED <<df, columns, df_filtered, error, warned>>

(* 11. Complete the matrix with every combination.                          *)

\* pd.MultiIndex.from_product of the two configured category lists.
all_combinations ==
    LET t1 == CONFIG.visitor_type1_categories
        t2 == CONFIG.visitor_type2_categories
    IN  [k \in 1..(Len(t1) * Len(t2)) |->
            <<t1[((k - 1) \div Len(t2)) + 1], t2[((k - 1) % Len(t2)) + 1]>>]

KeyColumns == {"visitor_type_1", "visitor_type_2"}

\* Reindex that keeps the rows it was given and adds none.
Reindex_existing_only(summary, index) == summary

\* summary.set_index(keys).reindex(index).reset_index(): one row per label
\* of the index, the matching row if there is one and NaN cells otherwise.
Reindex(summary, index) ==
    [columns |-> summary.columns,
     rows |-> [k \in 1..Len(index) |->
                 LET match == {i \in 1..Len(summary.rows) :
                                  /\ summary.rows[i].visitor_type_1 = index[k][1]
                                  /\ summary.rows[i].visitor_type_2 = index[k][2]}
                 IN  IF match # {} THEN summary.rows[CHOOSE i \in match : TRUE]
                     ELSE [visitor_type_1 |-> index[k][1], visitor_type_2 |-> index[k][2]]
                          @@ [c \in Range(summary.columns) \ KeyColumns |-> NaN]]]

\* fillna(0) applied to every column instead of the named one.
FillNa0_every_column(summary, col) ==
    [summary EXCEPT !.rows =
        [i \in 1..Len(summary.rows) |->
            [c \in DOMAIN summary.rows[i] |->
                IF c \notin KeyColumns /\ summary.rows[i][c] = NaN
                THEN <<0, 1>> ELSE summary.rows[i][c]]]]

\* summary[col] = summary[col].fillna(0)
FillNa0(summary, col) ==
    [summary EXCEPT !.rows =
        [i \in 1..Len(summary.rows) |->
            [summary.rows[i] EXCEPT ![col] = IF @ = NaN THEN <<0, 1>> ELSE @]]]

complete_visitor_matrix(summary) ==
    FillNa0(FillNa0(FillNa0(Reindex(summary, all_combinations),
                            "count_visitors"),
                    "pct_visitor_type_1"),
            "pct_visitor_type_2")

CompleteVisitorMatrix ==
    /\ pc = "complete"
    /\ summary_df' = complete_visitor_matrix(summary_df)
    /\ pc' = "format"
    /\ executed' = Append(executed, "complete")
    /\ UNCHANGED <<df, columns, df_filtered, error, warned>>

(* 12. Reorder and format columns.                                          *)

\* base_cols + transport_cols + food_cols + accommodation_cols + shopping_cols
\* (no accommodation label of the model contains "car" or "walk").
ordered_cols ==
    <<"visitor_type_1", "visitor_type_2", "count_visitors", "pct_visitor_type_1",
      "pct_visitor_type_2", "avg_nights", "dist_km_congress">>
    \o <<"avg_public_transport_congress", "avg_car_congress", "avg_walk_bike_congress",
         "avg_public_transport_leisure", "avg_car_leisure", "avg_walk_bike_leisure">>
    \o <<"avg_red_meat", "avg_poultry_fish", "avg_seafood", "avg_restaurant",
         "avg_fastfood", "avg_delivery", "avg_homemade">>
    \o [g \in 1..Len(groupings) |-> groupings[g][1]]
    \o [j \in 1..Len(shopping_cols) |-> "avg_" \o shopping_cols[j]]

\* summary_df[[col for col in ordered_cols if col in summary_df.columns]],
\* then round(2) on the numeric columns.
FormatSummary(summary) ==
    LET kept == SelectSeq(ordered_cols, LAMBDA col : col \in Range(summary.columns))
    IN  [columns |-> kept,
         rows |-> [i \in 1..Len(summary.rows) |->
                     [c \in Range(kept) |->
                         IF c \in KeyColumns THEN summary.rows[i][c]
                         ELSE Round2(summary.rows[i][c])]]]

FormatColumns ==
    /\ pc = "format"
    /\ summary_df' = FormatSummary(summary_df)
    /\ pc' = "export"
    /\ executed' = Append(executed, "format")
    /\ UNCHANGED <<df, columns, df_filtered, error, warned>>

(* 14. Export.                                                              *)

ExportResults ==
    /\ pc = "export"
    /\ pc' = "done"
    /\ executed' = Append(executed, "export")
    /\ UNCHANGED <<df, columns, df_filtered, summary_df, error, warned>>

Next ==
    \/ ValidateData
    \/ Filter
    \/ ClassifyVisitorType1
    \/ CreateTransportVariables
    \/ ClassifyVisitorType2
    \/ CreateFoodVariables
    \/ ConvertShoppingToNumeric
    \/ CalculateSummaryMetrics
    \/ AddAccommodationMetrics
    \/ GroupAccommodationCategories
    \/ AddShoppingMetrics
    \/ CompleteVisitorMatrix
    \/ FormatColumns
    \/ ExportResults

Spec == Init /\ [][Next]_vars

----------------------------------------------------------------------------
(* Properties.                                                              *)

Taxonomy1 == {"International", "National", "Local"}
Taxonomy2 == {"Eco-conscious", "Standard", "Young professional/student"}

\* The summary table is the one complete_visitor_matrix returned.
Completed == pc \in {"format", "export", "done"}

\* Positions of the retained records classified into the pair (t1, t2).
Respondents(t1, t2) ==
    {i \in 1..Len(df_filtered) :
        df_filtered[i].visitor_type_1 = t1 /\ df_filtered[i].visitor_type_2 = t2}

\* Positions of the rows of the summary table with the pair (t1, t2).
RowsOf(t1, t2) ==
    {i \in 1..Len(summary_df.rows) :
        summary_df.rows[i].visitor_type_1 = t1 /\ summary_df.rows[i].visitor_type_2 = t2}

\* C1: the completed table has exactly 9 rows, and each pair of
\* Taxonomy1 x Taxonomy2 is the key of exactly one row, whether or not a
\* retained respondent was classified into it.
C1_MatrixIsComplete ==
    Completed =>
        /\ Len(summary_df.rows) = 9
        /\ \A t1 \in Taxonomy1, t2 \in Taxonomy2 : Cardinality(RowsOf(t1, t2)) = 1

\* A completed table of a survey with a populated and an unpopulated pair.
C1_Witness ==
    /\ pc = "done"
    /\ \E t1 \in Taxonomy1, t2 \in Taxonomy2 : Respondents(t1, t2) # {}
    /\ \E t1 \in Taxonomy1, t2 \in Taxonomy2 : Respondents(t1, t2) = {}
    /\ Len(summary_df.rows) = 9

\* Columns of the summary other than the keys, the count and the percentages.
MetricColumns ==
    Range(summary_df.columns)
        \ {"visitor_type_1", "visitor_type_2", "count_visitors",
           "pct_visitor_type_1", "pct_visitor_type_2"}

\* C2: in the completed table a row of a pair without retained respondent has
\* count 0, both percentages 0, and every other metric column missing (NaN),
\* never 0.
C2_EmptyCombination ==
    Completed =>
        \A i \in 1..Len(summary_df.rows) :
            LET r == summary_df.rows[i]
            IN  Respondents(r.visitor_type_1, r.visitor_type_2) = {} =>
                    /\ r.count_visitors = <<0, 1>>
                    /\ r.pct_visitor_type_1 = <<0, 1>>
                    /\ r.pct_visitor_type_2 = <<0, 1>>
                    /\ \A c \in MetricColumns : r[c] = NaN /\ r[c] # <<0, 1>>

\* An exported table with an empty pair next to a populated one, carrying
\* night, distance, transport, food, accommodation and shopping columns.
C2_Witness ==
    /\ pc = "done"
    /\ \E i, j \in 1..Len(summary_df.rows) :
          /\ summary_df.rows[i].count_visitors = <<0, 1>>
          /\ summary_df.rows[i].avg_nights = NaN
          /\ summary_df.rows[j].count_visitors # <<0, 1>>
          /\ summary_df.rows[j].avg_nights # NaN
    /\ {"avg_nights", "dist_km_congress", "avg_car_congress", "avg_seafood",
        "avg_nights_Hotel 3 estrellas", "avg_compras_textiles_cantidad"} \subseteq MetricColumns

\* Retained records classified under both taxonomies.
Classified ==
    {i \in 1..Len(df_filtered) :
        df_filtered[i].visitor_type_1 \in Taxonomy1 /\ df_filtered[i].visitor_type_2 \in Taxonomy2}

RECURSIVE SumOver(_, _)
SumOver(S, f) ==
    IF S = {} THEN 0 ELSE LET x == CHOOSE y \in S : TRUE IN f[x] + SumOver(S \ {x}, f)

\* C3: count_visitors of each pair is the number of retained records
\* classified into it; records with no visitor_type_1 or with "No transport
\* reported" are counted in no row, so the counts sum to the number of
\* retained records classified under both taxonomies.
C3_CountsMatchRecords ==
    Completed =>
        /\ \A i \in 1..Len(summary_df.rows) :
              LET r == summary_df.rows[i]
              IN  r.count_visitors
                      = <<Cardinality(Respondents(r.visitor_type_1, r.visitor_type_2)), 1>>
        /\ SumOver(1..Len(summary_df.rows),
                   [i \in 1..Len(summary_df.rows) |-> summary_df.rows[i].count_visitors[1]])
              = Cardinality(Classified)

\* A completed table of a survey with a counted record and one left out
\* (unclassified origin or no transport reported).
C3_Witness ==
    /\ pc = "done"
    /\ Classified # {}
    /\ \E i \in 1..Len(df_filtered) :
          \/ df_filtered[i].visitor_type_1 = NaNStr
          \/ df_filtered[i].visitor_type_2 = "No transport reported"
    /\ \E i \in 1..Len(summary_df.rows) : summary_df.rows[i].count_visitors = <<1, 1>>

\* The rules of the geographic classification, as stated.
Rule1(row) == row.residencia = "Extranjero" \/ (row.pais # NaNStr /\ row.pais # "Espana")
Rule2(row) == row.residencia = "Espana" /\ row.provincia = "Valencia/Valencia"
Rule3(row) == row.residencia = "Espana"

\* C4: every classified record has exactly one of the four outcomes, chosen by
\* the first rule that matches: rule 1 International, rule 2 Local, rule 3
\* National, none unclassified; Espana / Valencia / Francia is International.
C4_Type1PriorityChain ==
    \A i \in 1..Len(df_filtered) :
        LET row == df_filtered[i]
        IN  "visitor_type_1" \in DOMAIN row =>
                /\ row.visitor_type_1 \in {"International", "National", "Local", NaNStr}
                /\ row.visitor_type_1 = "International" <=> Rule1(row)
                /\ row.visitor_type_1 = "Local" <=> (~Rule1(row) /\ Rule2(row))
                /\ row.visitor_type_1 = "National" <=> (~Rule1(row) /\ ~Rule2(row) /\ Rule3(row))
                /\ row.visitor_type_1 = NaNStr <=> (~Rule1(row) /\ ~Rule2(row) /\ ~Rule3(row))
                /\ (row.residencia = "Espana" /\ row.provincia = "Valencia/Valencia"
                        /\ row.pais = "Francia") => row.visitor_type_1 = "International"

\* The resident of Valencia with country Francia, classified International.
C4_Witness ==
    \E i \in 1..Len(df_filtered) :
        /\ "visitor_type_1" \in DOMAIN df_filtered[i]
        /\ df_filtered[i].residencia = "Espana"
        /\ df_filtered[i].provincia = "Valencia/Valencia"
        /\ df_filtered[i].pais = "Francia"
        /\ df_filtered[i].visitor_type_1 = "International"

\* C5: "No transport reported" exactly when the three congress buckets are 0;
\* otherwise Eco-conscious when active is the maximum, else Young
\* professional/student when public is the maximum, else Standard.
C5_Type2TieBreak ==
    \A i \in 1..Len(df_filtered) :
        LET row == df_filtered[i]
        IN  "visitor_type_2" \in DOMAIN row =>
                LET public == row.public_transport_use_congreso[1]
                    car == row.car_use_congreso[1]
                    active == row.walk_bike_use_congreso[1]
                    t2 == row.visitor_type_2
                IN  /\ t2 = "No transport reported" <=> (public = 0 /\ car = 0 /\ active = 0)
                    /\ t2 # "No transport reported" =>
                          /\ t2 = "Eco-conscious" <=> (active >= public /\ active >= car)
                          /\ t2 = "Young professional/student"
                                <=> (~(active >= public /\ active >= car) /\ public >= car)
                          /\ t2 = "Standard"
                                <=> (~(active >= public /\ active >= car) /\ ~(public >= car))
                    /\ (public = 5 /\ car = 5 /\ active = 5) => t2 = "Eco-conscious"
                    /\ (public = 5 /\ car = 5 /\ active = 0) => t2 = "Young professional/student"

\* The three-way tie (5, 5, 5), classified Eco-conscious.
C5_Witness ==
    \E i \in 1..Len(df_filtered) :
        /\ "visitor_type_2" \in DOMAIN df_filtered[i]
        /\ df_filtered[i].public_transport_use_congreso = <<5>>
        /\ df_filtered[i].car_use_congreso = <<5>>
        /\ df_filtered[i].walk_bike_use_congreso = <<5>>
        /\ df_filtered[i].visitor_type_2 = "Eco-conscious"

\* A rounded percentage cell in hundredths of a percent.
Hundredths(c) == (c[1] * 100) \div c[2]

Abs(x) == IF x < 0 THEN -x ELSE x

\* Retained records whose visitor_type_1 is t1.
OfType1(t1) == {i \in 1..Len(df_filtered) : df_filtered[i].visitor_type_1 = t1}

\* Retained records that are classified under Taxonomy 1.
ClassifiedType1 == {i \in 1..Len(df_filtered) : df_filtered[i].visitor_type_1 \in Taxonomy1}

\* C6: in every group row, pct_visitor_type_1 is the number of retained
\* records of the row's visitor_type_1 divided by the number of retained
\* records classified under Taxonomy 1, times 100 (to the second decimal).
C6_Type1ShareOfClassified ==
    \A i \in 1..Len(summary_df.rows) :
        LET r == summary_df.rows[i]
            n == Cardinality(OfType1(r.visitor_type_1))
            total == Cardinality(ClassifiedType1)
        IN  r.count_visitors \notin {NaN, <<0, 1>>} =>
                2 * Abs(Hundredths(r.pct_visitor_type_1) * total - n * 10000) <= total

\* Rows of the completed table with a non-zero count.
NonZeroRows == {i \in 1..Len(summary_df.rows) : summary_df.rows[i].count_visitors # <<0, 1>>}

CountedType1 == {summary_df.rows[i].visitor_type_1 : i \in NonZeroRows}

C8_Type2SumWithinType1 ==
    Completed =>
        \A t1 \in CountedType1 :
            Abs(SumOver({i \in 1..Len(summary_df.rows) : summary_df.rows[i].visitor_type_1 = t1},
                        [i \in 1..Len(summary_df.rows) |->
                            Hundredths(summary_df.rows[i].pct_visitor_type_2)])
                - 10000) <= 10

\* The two predicates of the filter, as stated.
IsComplete(row) == row.ultima_pagina = <<7>>
HasAccommodation(row) ==
    row.alojamiento # "Ninguno, me desplace desde mi lugar de residencia"

\* C9: the filter retains exactly the input records with page 7 and an
\* accommodation other than the excluded label, in input order; the result
\* does not depend on the order of the two predicates, and filtering the
\* filtered table again returns it unchanged.
C9_FilterIsIntersection ==
    /\ pc = "classify1" =>
          /\ df_filtered = SelectSeq(df, LAMBDA row : IsComplete(row) /\ HasAccommodation(row))
          /\ \A i \in 1..Len(df_filtered) : \E j \in 1..Len(df) : df_filtered[i] = df[j]
          /\ df_filtered = FilterComplete(FilterAccommodation(df))
    /\ pc \notin {"validate", "filter", "failed"} =>
          /\ FilterAccommodation(FilterComplete(df_filtered)) = df_filtered
          /\ \A i \in 1..Len(df_filtered) :
                IsComplete(df_filtered[i]) /\ HasAccommodation(df_filtered[i])

\* A filtered table that lost a record and kept one without accommodation answer.
C9_Witness ==
    /\ pc = "classify1"
    /\ Len(df_filtered) = 1
    /\ Len(df) = 2
    /\ df_filtered[1].alojamiento = NaNStr

\* C10: validation is the first stage and is fatal: with required columns
\* absent it fails listing every absent one, with a maximum page above 10 it
\* fails on the range, and after either failure no later stage has run.
C10_ValidationIsFatal ==
    LET absent == {c \in {"Ultima pagina", "alojamiento", "residencia", "pais",
                          "provincia", "noches_valencia"} : c \notin columns}
        too_large == \E i \in 1..Len(df) :
                         df[i].ultima_pagina # NaN /\ df[i].ultima_pagina[1] > 10
    IN  pc # "validate" =>
            /\ executed[1] = "validate"
            /\ absent # {} =>
                  /\ error.kind = "missing_columns"
                  /\ Range(error.missing_cols) = absent
                  /\ Len(error.missing_cols) = Cardinality(absent)
            /\ (absent = {} /\ too_large) =>
                  /\ error.kind = "unexpected_value"
                  /\ error.observed > 10
            /\ (absent # {} \/ too_large) =>
                  /\ pc = "failed"
                  /\ executed = <<"validate">>
                  /\ df_filtered = <<>>
                  /\ summary_df = [columns |-> <<>>, rows |-> <<>>]

\* A failed validation that reports three absent columns.
C10_Witness ==
    /\ pc = "failed"
    /\ error.kind = "missing_columns"
    /\ Len(error.missing_cols) = 3
    /\ executed = <<"validate">>

\* A failed validation of a table whose largest page is 11.
C10_WitnessRange ==
    /\ pc = "failed"
    /\ error.kind = "unexpected_value"
    /\ error.observed = 11

\* The raw row of the input table that a retained row comes from.
RawRow(row) == df[row.index + 1]

\* Whether a raw free-form cell holds a number, and that number as n/d.
IsNumber(c) == c.k \in {"num", "numstr", "half"}
Numerator(c) == c.v
Denominator(c) == IF c.k = "half" THEN 2 ELSE 1

\* The rows whose shopping columns were converted, and the converted columns.
Converted == IF pc \in {"validate", "filter", "classify1", "transport", "classify2",
                        "food", "shopping", "failed"} /\ error.kind # "KeyError"
             THEN {} ELSE 1..Len(df_filtered)
PresentShopping == {c \in Range(shopping_cols) : c \in columns}

\* C11 as stated: every converted shopping quantity is a non-negative
\* integer, 0 for a missing or non-numeric raw value, whatever the raw value.
C11_ShoppingNonNegative ==
    \A i \in Converted, c \in PresentShopping :
        LET cell == df_filtered[i][c]
            raw == RawRow(df_filtered[i])[c]
        IN  /\ cell.k = "num"
            /\ cell.v >= 0
            /\ ~IsNumber(raw) => cell.v = 0

\* C11, amended: every converted shopping quantity is an integer, 0 for a
\* missing or non-numeric raw value and otherwise the raw number with its
\* fraction cut off toward zero; it is non-negative exactly when the raw
\* number is greater than -1, so a raw number of -1 or less stays negative.
C11_ShoppingTruncated ==
    \A i \in Converted, c \in PresentShopping :
        LET cell == df_filtered[i][c]
            raw == RawRow(df_filtered[i])[c]
            n == Numerator(raw)
            d == Denominator(raw)
        IN  /\ cell.k = "num"
            /\ ~IsNumber(raw) => cell.v = 0
            /\ (IsNumber(raw) /\ n >= 0) => (cell.v * d <= n /\ n < (cell.v + 1) * d)
            /\ (IsNumber(raw) /\ n < 0) => ((cell.v - 1) * d < n /\ n <= cell.v * d)
            /\ IsNumber(raw) => (cell.v >= 0 <=> n > -d)

\* A converted table with a text quantity turned into 0 and the quantity
\* -1.5 turned into -1.
C11_Witness ==
    \E i \in Converted :
        /\ RawRow(df_filtered[i]).compras_alimentacion_cantidad = TxtV
        /\ df_filtered[i].compras_alimentacion_cantidad = NumV(0)
        /\ RawRow(df_filtered[i]).compras_textiles_cantidad = HalfV(-3)
        /\ df_filtered[i].compras_textiles_cantidad = NumV(-1)

\* The derived-variable construction has just finished.
Derived == pc = "summary"

\* Both calls of create_transport_variables, run on a table once more.
RederiveTransport(table) ==
    create_transport_variables(create_transport_variables(table, "congreso"), "ocio")

\* The derived-variable construction, run on a table once more.
Rederive(table) ==
    convert_shopping_to_numeric(
        create_food_variables(RederiveTransport(table), columns),
        columns)

LeisureColumns ==
    {"uso_bus_ocio", "uso_metro_ocio", "uso_taxi_ocio",
     "uso_coche_ocio", "uso_bici_ocio", "uso_pie_ocio"}

\* C12: running the derived-variable construction again on a derived table
\* changes no value, and replacing any leisure raw count of a record changes
\* neither its three congress buckets nor its visitor_type_2.
C12_DerivationIdempotent ==
    Derived =>
        /\ Rederive(df_filtered) = df_filtered
        /\ \A i \in 1..Len(df_filtered), col \in LeisureColumns, v \in UseValues :
              LET altered == [df_filtered[i] EXCEPT ![col] = v]
                  again == RederiveTransport(<<altered>>)[1]
              IN  /\ again.public_transport_use_congreso
                        = df_filtered[i].public_transport_use_congreso
                  /\ again.car_use_congreso = df_filtered[i].car_use_congreso
                  /\ again.walk_bike_use_congreso = df_filtered[i].walk_bike_use_congreso
                  /\ classify_visitor_type2(again) = df_filtered[i].visitor_type_2

\* A derived table whose leisure buckets differ from its congress buckets,
\* with a text shopping quantity converted to 0 and food totals in place.
C12_Witness ==
    /\ pc = "summary"
    /\ \E i \in 1..Len(df_filtered) :
          /\ df_filtered[i].public_transport_use_ocio # df_filtered[i].public_transport_use_congreso
          /\ df_filtered[i].walk_bike_use_ocio # df_filtered[i].walk_bike_use_congreso
          /\ RawRow(df_filtered[i]).compras_alimentacion_cantidad = TxtV
          /\ df_filtered[i].compras_alimentacion_cantidad = NumV(0)
          /\ df_filtered[i].total_carne_roja = <<1>>
          /\ RederiveTransport(<<[df_filtered[i] EXCEPT !.uso_bus_ocio = <<5>>]>>)[1]
                .public_transport_use_ocio = <<5>>

\* The summary has the per-category columns and the consolidated buckets.
Enriched == pc \in {"add_shopping", "complete"}

\* Retained respondents of a group in an accommodation category, and those
\* among them whose nights are a number.
Lodgers(t1, t2, cat) ==
    {i \in Respondents(t1, t2) : df_filtered[i].alojamiento = cat}
NightLodgers(t1, t2, cat) ==
    {i \in Lodgers(t1, t2, cat) : df_filtered[i].noches_valencia_num # NaN}
Nights(S) == SumOver(S, [i \in 1..Len(df_filtered) |-> df_filtered[i].noches_valencia_num[1]])

\* The cell x is the fraction n/d.
IsFraction(x, n, d) == x # NaN /\ x[1] * d = n * x[2]

\* The consolidated buckets and their source categories, as stated.
Buckets ==
    {<<"avg_nights_Airbnb",
       {"Alojamiento local sin coste", "Apartamento de alquiler (AirBnb)"}>>,
     <<"avg_nights_Hotel 3 estrellas", {"Hotel 3 estrellas"}>>,
     <<"avg_nights_Hotel 4 estrellas", {"Hotel 4 estrellas"}>>,
     <<"avg_nights_Hotel 5 estrellas", {"Hotel 5 estrellas"}>>,
     <<"avg_nights_Pension o Hostal", {"Hotel 2 estrellas", "Pension o hostal"}>>}

\* C13: a group without respondent in an accommodation category has a
\* missing value (not 0) in that category's column; each consolidated bucket
\* is the unweighted mean of the non-missing per-category means of its
\* sources, and is missing when all of them are missing or none exists.
C13_AccommodationBuckets ==
    Enriched =>
        \A i \in 1..Len(summary_df.rows) :
            LET r == summary_df.rows[i]
                t1 == r.visitor_type_1
                t2 == r.visitor_type_2
            IN  /\ \A cat \in Range(AccommodationSorted) :
                      ("avg_nights_" \o cat) \in Range(summary_df.columns) =>
                          /\ Lodgers(t1, t2, cat) = {} =>
                                (r["avg_nights_" \o cat] = NaN /\ r["avg_nights_" \o cat] # <<0, 1>>)
                          /\ NightLodgers(t1, t2, cat) # {} =>
                                IsFraction(r["avg_nights_" \o cat],
                                           Nights(NightLodgers(t1, t2, cat)),
                                           Cardinality(NightLodgers(t1, t2, cat)))
                /\ \A b \in Buckets :
                      LET present == {cat \in b[2] : NightLodgers(t1, t2, cat) # {}}
                          S(cat) == Nights(NightLodgers(t1, t2, cat))
                          N(cat) == Cardinality(NightLodgers(t1, t2, cat))
                      IN  /\ b[1] \in Range(summary_df.columns)
                          /\ present = {} <=> r[b[1]] = NaN
                          /\ \A x \in present :
                                present = {x} => IsFraction(r[b[1]], S(x), N(x))
                          /\ \A x, y \in present :
                                x # y => IsFraction(r[b[1]],
                                                    S(x) * N(y) + S(y) * N(x),
                                                    2 * N(x) * N(y))

\* Two apartment stays of 1 and 4 nights and one free local stay of 1 night
\* in one group: the Airbnb bucket is (2.5 + 1) / 2 = 1.75, not the weighted
\* 2; the group has nobody in a 2-star hotel or a pension.
C13_Witness ==
    /\ pc = "add_shopping"
    /\ \E i \in 1..Len(summary_df.rows) :
          LET r == summary_df.rows[i]
          IN  /\ r.count_visitors = <<3, 1>>
              /\ {"avg_nights_Apartamento de alquiler (AirBnb)",
                  "avg_nights_Alojamiento local sin coste"} \subseteq Range(summary_df.columns)
              /\ r["avg_nights_Apartamento de alquiler (AirBnb)"] = <<5, 2>>
              /\ r["avg_nights_Alojamiento local sin coste"] = <<1, 1>>
              /\ r["avg_nights_Airbnb"] = <<7, 4>>
              /\ r["avg_nights_Pension o Hostal"] = NaN
              /\ r["avg_nights_Hotel 5 estrellas"] = NaN

\* A group with respondents in 4-star hotels only, next to a group in
\* apartments: its apartment column and its Airbnb bucket are missing.
C13_WitnessEmptyCategory ==
    /\ pc = "add_shopping"
    /\ \E i \in 1..Len(summary_df.rows) :
          LET r == summary_df.rows[i]
          IN  /\ "avg_nights_Apartamento de alquiler (AirBnb)" \in Range(summary_df.columns)
              /\ r["avg_nights_Apartamento de alquiler (AirBnb)"] = NaN
              /\ r["avg_nights_Airbnb"] = NaN
              /\ r["avg_nights_Hotel 4 estrellas"] # NaN

\* Stages that are given the working table and return the summary table.
SummaryStages ==
    {"summary", "accommodation", "group_accommodation", "add_shopping",
     "complete", "format", "export"}

\* Columns of the working table that add_accommodation_metrics reads.
AccommodationReads ==
    {"visitor_type_1", "visitor_type_2", "alojamiento", "noches_valencia_num"}

\* C14: no stage changes the table it is given: the input table is never
\* changed, the aggregator and the enrichers leave the working table as the
\* classification and derivation stages returned it, and that table already
\* has every column the accommodation enricher reads.
C14_StagesArePure ==
    [][/\ df' = df
       /\ pc \in SummaryStages => df_filtered' = df_filtered
       /\ pc = "summary" =>
             \A i \in 1..Len(df_filtered) : AccommodationReads \subseteq DOMAIN df_filtered[i]]_vars

====
